---- MODULE Spec2Model ----
(***************************************************************************)
(* Model of the chiikawa-monitor reconciliation engine:                    *)
(*   src/chiikawa_monitor.py  ChiikawaMonitor (fetch_products,             *)
(*                            update_products, record_history, ...)        *)
(*   src/chiikawa_bot.py      check_updates, check_updates_with_retry,     *)
(*                            auto_monitor, start_monitoring,              *)
(*                            stop_monitoring                              *)
(*                                                                         *)
(* Spec       the bot: the auto_monitor loop task and one start command    *)
(*            task, each running check_updates_with_retry over the five    *)
(*            shared MongoDB collections.                                  *)
(*            Cycles run one at a time, as the design assumes.             *)
(* SpecConc   the same bot with the cycles interleaved as asyncio and the  *)
(*            executor threads allow.                                      *)
(* SpecStore  the calls of update_products of two overlapping cycles.      *)
(* SpecFetch  one call of fetch_products against an upstream that answers  *)
(*            every request nondeterministically.                          *)
(*                                                                         *)
(* Timestamps are kept at calendar-day granularity (the day number in the  *)
(* Asia/Taipei zone); a product is identified with its url.                *)
(***************************************************************************)
EXTENDS Integers, Sequences, FiniteSets, Bags, TLC

\* ------------------------------------------------------------------ bounds
\* product urls the upstream catalog may list
URLs == {"A", "B"}
\* last calendar day the clock reaches
MaxDay == 1
\* invocations of check_updates_with_retry the bot starts in one run
MaxCycles == 2
\* pages the upstream serves to one fetch_products call before an empty page
MaxPages == 2

\* --------------------------------------------------------- program constants
\* check_updates: for check_count in range(3)
NumChecks == 3
\* check_updates_with_retry(ctx, max_retries=3, retry_delay=3)
max_retries == 3
\* fetch_products(self, max_retries=3, retry_delay=5)
fetch_max_retries == 3
\* clean_old_records: seven_days_ago / thirty_days_ago
SevenDays == 7
ThirtyDays == 30

\* the two coroutines that run check_updates_with_retry:
\* the auto_monitor loop task and the task of a start command
Tasks == {"loop", "cmd"}
None == "None"
Channel == "channel"

\* products one page of the upstream answer lists
MaxPageLen == 2
\* handles in the upstream answers; "" is a product without a handle
Handles == URLs \cup {""}
\* titles and variant prices in the upstream answers; "n/a" is a price that
\* int(float(..)) cannot parse
Titles == {"t1", "t2"}
Prices == {"100.00", "n/a"}
\* a product of an upstream page
UpstreamProducts == [handle : Handles, title : Titles, price : Prices]
\* self.base_url
base_url == "https://chiikawamarket.jp"
\* the answers to a page request that are not a page of products
PageFailures == {"http_error", "json_error", "malformed", "exception"}

\* a tag of an upstream product: the text before the month, the length of
\* the tag, whether datetime(year, month, day) accepts its digits, and the
\* day its date is
Tag(p, n, ok, d) == [prefix |-> p, len |-> n, parses |-> ok, day |-> d]
\* product['tags']: A carries a restock tag for day 0, one whose month is 13,
\* one cut short, a tag that is no restock tag and a tag RE2026MMDD, whose
\* date is past every day of the run; B carries restock tags for day 0 and
\* day 1
ProductTags(u) ==
    IF u = "A"
    THEN {Tag("RE2025", 10, TRUE, 0), Tag("RE2025", 10, FALSE, 1),
          Tag("RE2025", 8, TRUE, 1), Tag("NEW", 3, FALSE, 0),
          Tag("RE2026", 10, TRUE, MaxDay + 1)}
    ELSE {Tag("RE2025", 10, TRUE, 0), Tag("RE2025", 10, TRUE, 1)}
\* lines 516-517: tag.startswith('RE2025') and len(tag) >= 10
resale_tags(u) == {tag \in ProductTags(u) : tag.prefix = "RE2025" /\ tag.len >= 10}
\* lines 523-532, 541-542: the dates parsed from the restock tags; a tag whose
\* digits are no date raises, which is logged
RestockTagDays(u) == {tag.day : tag \in {x \in resale_tags(u) : x.parses}}

Min(S) == CHOOSE x \in S : \A y \in S : x <= y

\* ------------------------------------------------------- MongoDB collections
\* a history / new / delisted document, as it is when its 'available' field
\* is not set
Event(u, ty, d, r) ==
    [url |-> u, type |-> ty, day |-> d, is_restock |-> r, available |-> "absent"]
\* fetch_products, lines 255-259: product['available'], the stock of the first
\* variant; A is in stock and B is sold out throughout
available_of(u) == IF u = "A" THEN "true" ELSE "false"
\* the document with its 'available' field set to that of the product
Stocked(e) == [e EXCEPT !.available = available_of(e.url)]
\* collection.bulk_write of pymongo.UpdateMany(filter, {'$set': {'available':
\* available}}), one per url of urls, the filter naming the url and the types
update_many_available(coll, urls, types) ==
    BagOfAll(LAMBDA e : IF e.url \in urls /\ e.type \in types THEN Stocked(e) ELSE e,
             coll)
\* collection.insert_one(doc)
insert_one(coll, doc) == coll (+) SetToBag({doc})
\* collection.delete_many({'url': {'$in': urls}})
delete_many_urls(coll, urls) ==
    LET keep == {e \in DOMAIN coll : e.url \notin urls}
    IN  [e \in keep |-> coll[e]]
\* collection.delete_many({'date': {'$lt': now - timedelta(days=n)}})
delete_many_older(coll, now, n) ==
    LET keep == {e \in DOMAIN coll : ~(e.day < now - n)}
    IN  [e \in keep |-> coll[e]]
\* collection.find_one({'url': u}) is not None
find_one_url(coll, u) == \E e \in DOMAIN coll : e.url = u
\* the products collection is a bag of urls, one copy per document:
\* set(p['url'] for p in self.products.find({}))
urls_of(coll) == BagToSet(coll)
\* the delete-all removes nothing
delete_many_all_none(coll) == coll
\* self.products.delete_many({})
delete_many_all(coll) == EmptyBag
\* the unique index on url is missing
duplicate_keys_no_index(coll, docs) == {}
\* ensure_indexes: products.create_index('url', unique=True); the documents
\* of an insert whose url the collection already holds
duplicate_keys(coll, docs) == docs \cap urls_of(coll)
\* self.products.insert_many(products_data), an ordered bulk insert: every
\* document is inserted unless one hits the unique index; then the documents
\* sent before it stay inserted and BulkWriteError is raised. The outcomes,
\* over the orders of the list.
insert_many(coll, docs) ==
    IF duplicate_keys(coll, docs) = {}
    THEN {[coll |-> coll (+) SetToBag(docs), ok |-> TRUE]}
    ELSE {[coll |-> coll (+) SetToBag(P), ok |-> FALSE] :
            P \in SUBSET (docs \ duplicate_keys(coll, docs))}
\* an entry of the log of write operations a task has issued
Op(c, o, u) == [coll |-> c, op |-> o, url |-> u]

VARIABLES
    products,       \* db['products']: the urls of the Snapshot Store (unique index on url)
    history,        \* db['history']:  bag of events
    new,            \* db['new']:      bag of events
    delisted,       \* db['delisted']: bag of events
    resale,         \* db['resale']:   set of [url, next_resale_date] (unique index on url)
    today,          \* calendar day of datetime.now(TW_TIMEZONE)
    monitoring_channel_id,  \* module global of chiikawa_bot.py
    loop_running,   \* auto_monitor.is_running()
    pc,             \* position of each task
    attempt,        \* check_updates_with_retry: loop variable attempt
    old_products,   \* check_updates locals, per task
    check_count,
    current_products,
    verification_results,
    new_products_data,
    new_listings,
    missing_products,
    delisted_list,  \* the local list `delisted` reported to the notifier
    response,       \* check_product_url: for each candidate, the outcome of its HEAD request
    todo,           \* items of the running batch whose executor call has not run yet
    exc,            \* exception in flight in the task
    outcome,        \* how the last invocation of check_updates ended
    cycles,         \* invocations of check_updates_with_retry started so far
    surfaced,       \* the "failed several times" message was sent
    db_writes,      \* write operations the task issued in this invocation
    f_pc,           \* fetch_products: position
    f_attempt,      \* loop variable attempt
    f_page,         \* page
    f_data,         \* new_products_data, the list being built
    f_seen,         \* seen_handles
    f_first,        \* for each handle served in this attempt, its first product
    f_last,         \* kind of the answer to the last request
    f_result,       \* the list returned
    b_phase,        \* a batch loop of check_updates: position
    b_kind,         \* which loop: the probes or the writes of new listings
    b_len,          \* len(missing_products) / len(new_listings)
    b_i,            \* loop variable i, the start of the batch
    b_inflight,     \* futures of the batch that have not completed
    b_down,         \* unreachable products of the batch left to record
    b_done,         \* for each item of the list, how often it was dispatched
    r_pc,           \* record_history in a thread of the executor: position
    r_url,          \* product['url']
    r_type,         \* type_
    r_was_delisted, \* was_delisted
    r_ret           \* the value returned

dbvars == <<products, history, new, delisted, resale>>
botvars == <<monitoring_channel_id, loop_running, cycles>>
locals == <<old_products, check_count, current_products, verification_results,
            new_products_data, new_listings, missing_products, delisted_list, response, todo>>
ctlvars == <<pc, attempt, exc, outcome, surfaced, db_writes>>
fetchvars == <<f_pc, f_attempt, f_page, f_data, f_seen, f_first, f_last, f_result>>
batchvars == <<b_phase, b_kind, b_len, b_i, b_inflight, b_down, b_done>>
recvars == <<r_pc, r_url, r_type, r_was_delisted, r_ret>>
vars == <<dbvars, today, botvars, locals, ctlvars, fetchvars, batchvars, recvars>>

\* ------------------------------------------------- ChiikawaMonitor operations
\* the five collections as one value
DB == [products |-> products, history |-> history, new |-> new,
       delisted |-> delisted, resale |-> resale]

\* the existence check finds nothing
history_exists_never(hist, u, ty, now) == FALSE
\* record_history: self.history.find_one({'url', 'type', 'date': {'$gte': today}})
history_exists(hist, u, ty, now) ==
    \E e \in DOMAIN hist : e.url = u /\ e.type = ty /\ e.day >= now

\* record_history(product, type_): the new db, the write operations issued
\* and the value returned
record_history(db, u, ty, now) ==
    IF history_exists(db.history, u, ty, now)
    THEN [db |-> db, ops |-> {}, ret |-> FALSE]
    ELSE IF ty = "new"
         THEN LET was_delisted == find_one_url(db.delisted, u)
                  d1 == IF was_delisted
                        THEN delete_many_urls(db.delisted, {u})
                        ELSE db.delisted
                  new_data == Stocked(Event(u, "new", now,
                                      IF was_delisted THEN "true" ELSE "false"))
                  history_data == Event(u, "new", now, "absent")
              IN  [db  |-> [db EXCEPT !.delisted = d1,
                                      !.new = insert_one(db.new, new_data),
                                      !.history = insert_one(db.history, history_data)],
                   ops |-> {Op("new", "insert", u), Op("history", "insert", u)}
                           \cup (IF was_delisted
                                 THEN {Op("delisted", "delete", u)} ELSE {}),
                   ret |-> TRUE]
         ELSE LET history_data == Event(u, "delisted", now, "absent")
              IN  [db  |-> [db EXCEPT !.delisted = insert_one(db.delisted, history_data),
                                      !.history = insert_one(db.history, history_data)],
                   ops |-> {Op("delisted", "insert", u), Op("history", "insert", u)},
                   ret |-> TRUE]

\* update_products, lines 366-374 and 384-394: history_data, which carries
\* 'available' for a new listing and not for a delisted product
history_data_of(u, ty, now, r) ==
    IF ty = "new" THEN Stocked(Event(u, ty, now, r)) ELSE Event(u, ty, now, r)
\* insert one event per url of S into a collection (loops of update_products)
RECURSIVE insert_each(_, _, _, _, _)
insert_each(coll, S, ty, now, r) ==
    IF S = {} THEN coll
    ELSE LET u == CHOOSE x \in S : TRUE
         IN  insert_each(insert_one(coll, history_data_of(u, ty, now, r)),
                         S \ {u}, ty, now, r)

\* every date of a restock tag counts, passed or not
valid_resale_dates_all(u, now) == RestockTagDays(u)
\* process_resale_items, lines 534-539: the dates of the product's restock
\* tags that are on or after the current date
valid_resale_dates(u, now) == {d \in RestockTagDays(u) : d >= now}

\* the document is inserted whether or not the url has an entry
update_one_insert(res, doc) == res \cup {doc}
\* the operation removes the entry of the url when there is one
update_one_toggle(res, doc) ==
    IF \E e \in res : e.url = doc.url
    THEN {e \in res : e.url # doc.url}
    ELSE res \cup {doc}
\* pymongo.UpdateOne({'url': url}, {'$set': ..}, upsert=True), lines 557-573:
\* the fields of one entry of the url are set, or the entry is inserted
update_one_upsert(res, doc) ==
    IF \E e \in res : e.url = doc.url
    THEN (res \ {CHOOSE e \in res : e.url = doc.url}) \cup {doc}
    ELSE res \cup {doc}

\* self.resale.bulk_write(bulk_operations, ordered=False), lines 575-583
RECURSIVE bulk_write(_, _)
bulk_write(res, docs) ==
    IF docs = {} THEN res
    ELSE LET doc == CHOOSE x \in docs : TRUE
         IN  bulk_write(update_one_upsert(res, doc), docs \ {doc})

\* the entry of a product without a date to come is deleted
process_resale_items_drop(res, data, now) ==
    bulk_write({e \in res : e.url \notin data \/ valid_resale_dates(e.url, now) # {}},
               {[url |-> u, next_resale_date |-> Min(valid_resale_dates(u, now))] :
                  u \in {x \in data : valid_resale_dates(x, now) # {}}})
\* a restock tag that is no date ends the call before any bulk_write
process_resale_items_abort(res, data, now) ==
    IF \E u \in data : \E tag \in resale_tags(u) : ~tag.parses
    THEN res
    ELSE bulk_write(res,
               {[url |-> u, next_resale_date |-> Min(valid_resale_dates(u, now))] :
                  u \in {x \in data : valid_resale_dates(x, now) # {}}})
\* process_resale_items(products_data): a product without a restock date to
\* come is passed over (lines 512-547), the others are upserted by url with
\* the earliest of these dates (line 550)
process_resale_items(res, data, now) ==
    bulk_write(res,
               {[url |-> u, next_resale_date |-> Min(valid_resale_dates(u, now))] :
                  u \in {x \in data : valid_resale_dates(x, now) # {}}})

\* clean_old_records
clean_old_records(db, now) ==
    [db EXCEPT !.new = delete_many_older(db.new, now, SevenDays),
               !.delisted = delete_many_older(db.delisted, now, SevenDays),
               !.history = delete_many_older(db.history, now, ThirtyDays)]

\* update_products writes no delisted event
update_delisted_urls_none(existing_urls, new_urls) == {}
\* update_products, step 3: the urls it records as delisted
update_delisted_urls(existing_urls, new_urls) == existing_urls \ new_urls

\* update_products, lines 327-416: steps 1 to 7 and the delete-all of step
\* 8; the new db and the write operations issued
update_products_steps(db, data, now) ==
    LET existing_urls == urls_of(db.products)
        new_listing_urls == data \ existing_urls
        delisted_urls == update_delisted_urls(existing_urls, data)
        \* 4. clean the delisted and resale collections of relisted urls
        d4 == delete_many_urls(db.delisted, new_listing_urls)
        r4 == {e \in db.resale : e.url \notin new_listing_urls}
        \* 5. delisted events, written without an existence check
        d5 == insert_each(d4, delisted_urls, "delisted", now, "absent")
        h5 == insert_each(db.history, delisted_urls, "delisted", now, "absent")
        \* 6. new events; was_delisted is read after step 4
        restock == {u \in new_listing_urls : find_one_url(d5, u)}
        n6 == insert_each(insert_each(db.new, restock, "new", now, "true"),
                          new_listing_urls \ restock, "new", now, "false")
        h6 == insert_each(insert_each(h5, restock, "new", now, "true"),
                          new_listing_urls \ restock, "new", now, "false")
        \* 7. restock entries
        r7 == process_resale_items(r4, data, now)
        \* 8. delete_many({})
        db8 == [products |-> delete_many_all(db.products), history |-> h6,
                new |-> n6, delisted |-> d5, resale |-> r7]
        ops == {Op("delisted", "delete", u) : u \in new_listing_urls}
               \cup {Op("resale", "delete", u) : u \in new_listing_urls}
               \cup {Op("delisted", "insert", u) : u \in delisted_urls}
               \cup {Op("history", "insert", u) : u \in delisted_urls}
               \cup {Op("new", "insert", u) : u \in new_listing_urls}
               \cup {Op("history", "insert", u) : u \in new_listing_urls}
               \cup {Op("resale", "upsert", u) :
                       u \in {x \in data : valid_resale_dates(x, now) # {}}}
               \cup {Op("products", "delete", "*")}
    IN  [db |-> db8, ops |-> ops]
\* the steps are run whatever the list
update_products_unguarded(db, data, now) == update_products_steps(db, data, now)
\* update_products(products_data), lines 319-322: `if not products_data:
\* return`, before anything is read or written; else the steps
update_products(db, data, now) ==
    IF data = {} THEN [db |-> db, ops |-> {}]
    ELSE update_products_steps(db, data, now)

\* update_products, lines 341-361, when the first insert_one of steps 5 and 6
\* raises: steps 1 to 4 are done, and an event is left to write
update_products_raises(db, data) ==
    LET new_listing_urls == data \ urls_of(db.products)
        delisted_urls == update_delisted_urls(urls_of(db.products), data)
    IN  [db  |-> [db EXCEPT !.delisted = delete_many_urls(db.delisted, new_listing_urls),
                            !.resale = {e \in db.resale : e.url \notin new_listing_urls}],
         ops |-> {Op("delisted", "delete", u) : u \in new_listing_urls}
                 \cup {Op("resale", "delete", u) : u \in new_listing_urls}
                 \cup {IF delisted_urls # {}
                       THEN Op("delisted", "failed", CHOOSE u \in delisted_urls : TRUE)
                       ELSE Op("new", "failed", CHOOSE u \in new_listing_urls : TRUE)}]

\* sync_product_availability(products_data): 'available' of the product is
\* set on the history events of type 'new' and on the events of the new
\* collection that bear its url
sync_product_availability(db, data) ==
    [db EXCEPT !.history = update_many_available(db.history, data, {"new"}),
               !.new = update_many_available(db.new, data, {"new", "delisted"})]

\* update_products, lines 426-434: what follows a successful insert_many:
\* 9. sync_product_availability (UpdateMany per url), 10. clean_old_records
update_products_tail(db, data, now) ==
    [db  |-> clean_old_records(sync_product_availability(db, data), now),
     ops |-> {Op("history", "update", u) : u \in data}
             \cup {Op("new", "update", u) : u \in data}
             \cup {Op(c, "delete", "*") : c \in {"new", "delisted", "history"}}]

\* session.head(url, allow_redirects=True, timeout=10) returns a response
\* with a status code, or raises: the timeout, a refused connection
HeadOutcomes == {[raised |-> FALSE, status_code |-> 200],
                 [raised |-> FALSE, status_code |-> 404],
                 [raised |-> TRUE, status_code |-> 0]}
\* whatever the request raises is taken for a product that is reachable
check_product_url_lenient(r) == r.raised \/ r.status_code = 200
\* ChiikawaMonitor.check_product_url: True only on a 200 answer to the HEAD
\* request; the bare `except:` returns False
check_product_url(r) == IF r.raised THEN FALSE ELSE r.status_code = 200

\* ------------------------------------------------------------ check_updates
\* the empty list is not taken for a failure
fetch_failed_ignored(r) == FALSE
\* if not current_products: raise FetchProductError
fetch_failed(r) == r = {}
\* the first-run test is dropped
is_first_run_never(old) == FALSE
\* is_first_run = len(old_products) == 0
is_first_run(old) == old = {}
\* only the first two results are compared
all_consistent_first_two(vr) == vr[2] = vr[1]
\* all(urls == verification_results[0] for urls in verification_results)
all_consistent(vr) == \A i \in 1..Len(vr) : vr[i] = vr[1]
\* the difference is taken the wrong way round
verified_new_urls_swapped(current_urls, old_urls) == old_urls \ current_urls
\* verified_new_urls = current_urls - old_urls
verified_new_urls(current_urls, old_urls) == current_urls \ old_urls
\* verified_missing_urls = old_urls - current_urls
verified_missing_urls(old_urls, current_urls) == old_urls \ current_urls
\* the outer `except Exception` of check_updates: the exception is logged and
\* reported to the webhook, then check_updates returns; a failing send raises
\* the error of the send instead
check_updates_except(e, sendOk) == IF sendOk THEN "none" ELSE "Exception"

\* the loop makes one fetch less
RECURSIVE verify_loop_short(_, _, _)
verify_loop_short(rs, i, vr) ==
    IF i > NumChecks - 1
    THEN [failed |-> FALSE, results |-> vr, last |-> rs[NumChecks - 1],
          check_count |-> NumChecks - 2]
    ELSE IF fetch_failed(rs[i])
    THEN [failed |-> TRUE, results |-> vr, last |-> rs[i], check_count |-> i - 1]
    ELSE verify_loop_short(rs, i + 1, Append(vr, rs[i]))
\* for check_count in range(3): the fetches made until one returns an empty
\* list (which raises FetchProductError) or three have returned; rs[i] is what
\* the i-th call of fetch_products would return
RECURSIVE verify_loop(_, _, _)
verify_loop(rs, i, vr) ==
    IF i > NumChecks
    THEN [failed |-> FALSE, results |-> vr, last |-> rs[NumChecks],
          check_count |-> NumChecks - 1]
    ELSE IF fetch_failed(rs[i])
    THEN [failed |-> TRUE, results |-> vr, last |-> rs[i], check_count |-> i - 1]
    ELSE verify_loop(rs, i + 1, Append(vr, rs[i]))

NoLocals(t) ==
    /\ old_products' = [old_products EXCEPT ![t] = {}]
    /\ check_count' = [check_count EXCEPT ![t] = 0]
    /\ current_products' = [current_products EXCEPT ![t] = {}]
    /\ verification_results' = [verification_results EXCEPT ![t] = <<>>]
    /\ new_products_data' = [new_products_data EXCEPT ![t] = {}]
    /\ new_listings' = [new_listings EXCEPT ![t] = {}]
    /\ missing_products' = [missing_products EXCEPT ![t] = {}]
    /\ delisted_list' = [delisted_list EXCEPT ![t] = {}]
    /\ response' = [response EXCEPT ![t] = <<>>]
    /\ todo' = [todo EXCEPT ![t] = {}]

\* the store of a bot that has never completed a cycle over the snapshot P
FreshStore(P) ==
    [products |-> SetToBag(P), history |-> EmptyBag, new |-> EmptyBag,
     delisted |-> EmptyBag, resale |-> {}]
\* the store of a bot that was stopped a week ago: the snapshot is {B}, B was
\* listed thirty days ago and relisted seven days ago, A and B were announced
\* for a restock on day 0 and A was then delisted seven days ago
AgedStore ==
    [products |-> SetToBag({"B"}),
     history  |-> SetToBag({Stocked(Event("B", "new", 0 - ThirtyDays, "absent")),
                            Stocked(Event("B", "new", 0 - SevenDays, "absent")),
                            Event("A", "delisted", 0 - SevenDays, "absent")}),
     new      |-> SetToBag({Stocked(Event("B", "new", 0 - SevenDays, "false"))}),
     delisted |-> SetToBag({Event("A", "delisted", 0 - SevenDays, "absent")}),
     resale   |-> {[url |-> "A", next_resale_date |-> 0],
                   [url |-> "B", next_resale_date |-> 0]}]

\* no batch loop is followed
NoBatch ==
    /\ b_phase = "off" /\ b_kind = "probe" /\ b_len = 0 /\ b_i = 0
    /\ b_inflight = 0 /\ b_down = 0 /\ b_done = <<>>

\* no call of record_history is followed step by step
NoRecord ==
    /\ r_pc = [t \in Tasks |-> "off"]
    /\ r_url = [t \in Tasks |-> None]
    /\ r_type = [t \in Tasks |-> None]
    /\ r_was_delisted = [t \in Tasks |-> FALSE]
    /\ r_ret = [t \in Tasks |-> "none"]

Init ==
    /\ \E db \in {FreshStore(P) : P \in SUBSET URLs} \cup {AgedStore} :
         /\ products = db.products
         /\ history = db.history /\ new = db.new /\ delisted = db.delisted
         /\ resale = db.resale
    /\ today = 0
    /\ monitoring_channel_id = None
    /\ loop_running = FALSE
    /\ cycles = 0
    /\ pc = [t \in Tasks |-> "idle"]
    /\ attempt = [t \in Tasks |-> 0]
    /\ old_products = [t \in Tasks |-> {}]
    /\ check_count = [t \in Tasks |-> 0]
    /\ current_products = [t \in Tasks |-> {}]
    /\ verification_results = [t \in Tasks |-> <<>>]
    /\ new_products_data = [t \in Tasks |-> {}]
    /\ new_listings = [t \in Tasks |-> {}]
    /\ missing_products = [t \in Tasks |-> {}]
    /\ delisted_list = [t \in Tasks |-> {}]
    /\ response = [t \in Tasks |-> <<>>]
    /\ todo = [t \in Tasks |-> {}]
    /\ exc = [t \in Tasks |-> "none"]
    /\ outcome = [t \in Tasks |-> "none"]
    /\ surfaced = [t \in Tasks |-> FALSE]
    /\ db_writes = [t \in Tasks |-> {}]
    /\ f_pc = "off" /\ f_attempt = 0 /\ f_page = 0 /\ f_data = <<>>
    /\ f_seen = {} /\ f_first = <<>> /\ f_last = "none" /\ f_result = <<>>
    /\ NoBatch
    /\ NoRecord

\* the clock passes midnight
Tick ==
    /\ today < MaxDay
    /\ today' = today + 1
    /\ UNCHANGED <<dbvars, botvars, locals, ctlvars, fetchvars, batchvars, recvars>>

\* check_updates, lines 209-237: the baseline is read from the Snapshot Store
ReadBaseline(t) ==
    /\ old_products' = [old_products EXCEPT ![t] = urls_of(products)]
    /\ check_count' = [check_count EXCEPT ![t] = 0]
    /\ current_products' = [current_products EXCEPT ![t] = {}]
    /\ verification_results' = [verification_results EXCEPT ![t] = <<>>]
    /\ new_products_data' = [new_products_data EXCEPT ![t] = {}]
    /\ new_listings' = [new_listings EXCEPT ![t] = {}]
    /\ missing_products' = [missing_products EXCEPT ![t] = {}]
    /\ delisted_list' = [delisted_list EXCEPT ![t] = {}]
    /\ response' = [response EXCEPT ![t] = <<>>]
    /\ todo' = [todo EXCEPT ![t] = {}]
    /\ db_writes' = [db_writes EXCEPT ![t] = {}]
    /\ outcome' = [outcome EXCEPT ![t] = "none"]
    /\ exc' = [exc EXCEPT ![t] = "none"]
    /\ pc' = [pc EXCEPT ![t] = "fetch"]

\* entry of check_updates_with_retry: attempt = 1 and the first call of
\* check_updates, which runs without suspending up to the first fetch
Enter(t) ==
    /\ cycles < MaxCycles
    /\ cycles' = cycles + 1
    /\ attempt' = [attempt EXCEPT ![t] = 1]
    /\ surfaced' = [surfaced EXCEPT ![t] = FALSE]
    /\ ReadBaseline(t)

\* @bot.command(name='start'): sets the channel, starts the loop when it is
\* not running, then runs a cycle of its own
start_monitoring ==
    /\ pc["cmd"] = "idle"
    /\ monitoring_channel_id' = Channel
    /\ loop_running' = TRUE
    /\ Enter("cmd")
    /\ UNCHANGED <<dbvars, today, fetchvars, batchvars, recvars>>

\* @tasks.loop(minutes=10): one iteration of the loop task
auto_monitor ==
    /\ loop_running
    /\ pc["loop"] = "idle"
    /\ monitoring_channel_id # None
    /\ Enter("loop")
    /\ UNCHANGED <<dbvars, today, monitoring_channel_id, loop_running, fetchvars, batchvars, recvars>>

\* positions of a task whose call of update_products is running
InUpdateProducts == {"insert", "sync"}

\* @bot.command(name='stop'): auto_monitor.cancel() cancels the loop task at
\* the await it is suspended in; a thread of the executor that is running
\* update_products is not interrupted, so the cancellation shows once the
\* call has returned
stop_monitoring ==
    /\ loop_running
    /\ pc["loop"] \notin InUpdateProducts
    /\ loop_running' = FALSE
    /\ monitoring_channel_id' = None
    /\ pc' = [pc EXCEPT !["loop"] = "idle"]
    /\ outcome' = [outcome EXCEPT !["loop"] = "none"]
    /\ exc' = [exc EXCEPT !["loop"] = "none"]
    /\ db_writes' = [db_writes EXCEPT !["loop"] = {}]
    /\ attempt' = [attempt EXCEPT !["loop"] = 0]
    /\ NoLocals("loop")
    /\ UNCHANGED <<dbvars, today, cycles, surfaced, fetchvars, batchvars, recvars>>

\* position after the probes / after the delisted records, lines 307-357
AfterProbe(down, listings) ==
    IF down # {} THEN "record_delisted"
    ELSE IF listings # {} THEN "record_new" ELSE "update"

\* check_updates, lines 239-305: the three verification fetches (fetch_products
\* returns a list without duplicate urls, empty when it failed), then, with no
\* suspension in between, first-run test, consistency check and the two diffs
VerifyAndClassify(t) ==
    /\ pc[t] = "fetch"
    /\ \E rs \in [1..NumChecks -> SUBSET URLs] :
         LET v == verify_loop(rs, 1, <<>>)
             current_urls == v.results[1]
             nl == verified_new_urls(current_urls, old_products[t])
             mp == verified_missing_urls(old_products[t], current_urls)
         IN  /\ current_products' = [current_products EXCEPT ![t] = v.last]
             /\ verification_results' = [verification_results EXCEPT ![t] = v.results]
             /\ check_count' = [check_count EXCEPT ![t] = v.check_count]
             /\ IF v.failed
                THEN /\ exc' = [exc EXCEPT ![t] = "FetchProductError"]
                     /\ outcome' = [outcome EXCEPT ![t] = "fetch_failed"]
                     /\ pc' = [pc EXCEPT ![t] = "except"]
                     /\ UNCHANGED <<new_products_data, new_listings,
                                    missing_products, todo>>
                ELSE /\ new_products_data' = [new_products_data EXCEPT ![t] = v.last]
                     /\ IF is_first_run(old_products[t])
                        THEN /\ outcome' = [outcome EXCEPT ![t] = "first_run"]
                             /\ pc' = [pc EXCEPT ![t] = "returned"]
                             /\ UNCHANGED <<new_listings, missing_products, todo, exc>>
                        ELSE IF ~all_consistent(v.results)
                        THEN /\ outcome' = [outcome EXCEPT ![t] = "inconsistent"]
                             /\ \E sendOk \in BOOLEAN :
                                  /\ pc' = [pc EXCEPT ![t] =
                                        IF sendOk THEN "returned" ELSE "except"]
                                  /\ exc' = [exc EXCEPT ![t] =
                                        IF sendOk THEN "none" ELSE "Exception"]
                             /\ UNCHANGED <<new_listings, missing_products, todo>>
                        ELSE /\ new_listings' = [new_listings EXCEPT ![t] = nl]
                             /\ missing_products' = [missing_products EXCEPT ![t] = mp]
                             /\ todo' = [todo EXCEPT ![t] = IF mp # {} THEN {} ELSE nl]
                             /\ pc' = [pc EXCEPT ![t] =
                                   IF mp # {} THEN "probe" ELSE AfterProbe({}, nl)]
                             /\ UNCHANGED <<outcome, exc>>
    /\ UNCHANGED <<dbvars, today, botvars, old_products, delisted_list, response,
                   attempt, surfaced, db_writes, fetchvars, batchvars, recvars>>

\* check_updates, lines 313-320: the batch of reachability probes
Probe(t) ==
    /\ pc[t] = "probe"
    /\ \E r \in [missing_products[t] -> HeadOutcomes] :
         LET down == {u \in missing_products[t] : ~check_product_url(r[u])}
         IN  /\ response' = [response EXCEPT ![t] = r]
             /\ todo' = [todo EXCEPT ![t] =
                   IF down # {} THEN down ELSE new_listings[t]]
             /\ pc' = [pc EXCEPT ![t] = AfterProbe(down, new_listings[t])]
    /\ UNCHANGED <<dbvars, today, botvars, old_products, check_count,
                   current_products, verification_results, new_products_data,
                   new_listings, missing_products, delisted_list,
                   attempt, exc, outcome, surfaced, db_writes, fetchvars, batchvars, recvars>>

\* the db after an operation of the monitor
SetDB(db) ==
    /\ products' = db.products
    /\ history' = db.history
    /\ new' = db.new
    /\ delisted' = db.delisted
    /\ resale' = db.resale

\* check_updates, lines 323-329: delisted.append and record_history(.., 'delisted')
RecordDelisted(t) ==
    /\ pc[t] = "record_delisted"
    /\ \E u \in todo[t] :
         LET r == record_history(DB, u, "delisted", today)
             rest == todo[t] \ {u}
         IN  /\ SetDB(r.db)
             /\ db_writes' = [db_writes EXCEPT ![t] = @ \cup r.ops]
             /\ delisted_list' = [delisted_list EXCEPT ![t] = @ \cup {u}]
             /\ todo' = [todo EXCEPT ![t] =
                   IF rest # {} THEN rest ELSE new_listings[t]]
             /\ pc' = [pc EXCEPT ![t] = AfterProbe(rest, new_listings[t])]
    /\ UNCHANGED <<today, botvars, old_products, check_count, current_products,
                   verification_results, new_products_data, new_listings,
                   missing_products, response, attempt, exc, outcome, surfaced,
                   fetchvars, batchvars, recvars>>

\* check_updates, lines 335-353: record_history(p, 'new') for the new listings
RecordNew(t) ==
    /\ pc[t] = "record_new"
    /\ \E u \in todo[t] :
         LET r == record_history(DB, u, "new", today)
             rest == todo[t] \ {u}
         IN  /\ SetDB(r.db)
             /\ db_writes' = [db_writes EXCEPT ![t] = @ \cup r.ops]
             /\ todo' = [todo EXCEPT ![t] = rest]
             /\ pc' = [pc EXCEPT ![t] = IF rest # {} THEN "record_new" ELSE "update"]
    /\ UNCHANGED <<today, botvars, old_products, check_count, current_products,
                   verification_results, new_products_data, new_listings,
                   missing_products, delisted_list, response, attempt, exc, outcome,
                   surfaced, fetchvars, batchvars, recvars>>

\* check_updates, lines 358-422: what follows update_products, whose return
\* value is not read: the notifications, any of which may raise
Notify(t) ==
    \E sendOk \in BOOLEAN :
        /\ pc' = [pc EXCEPT ![t] = IF sendOk THEN "returned" ELSE "except"]
        /\ exc' = [exc EXCEPT ![t] = IF sendOk THEN "none" ELSE "Exception"]

\* check_updates, line 357: update_products in the executor, up to the
\* delete-all of the products collection; the first read of the collection
\* may raise, which update_products catches to return False
UpdateProducts(t) ==
    /\ pc[t] = "update"
    /\ \/ /\ new_products_data[t] # {}
          /\ LET r == update_products(DB, new_products_data[t], today)
             IN  /\ SetDB(r.db)
                 /\ db_writes' = [db_writes EXCEPT ![t] = @ \cup r.ops]
                 /\ pc' = [pc EXCEPT ![t] = "insert"]
                 /\ UNCHANGED <<outcome, exc>>
       \/ /\ new_products_data[t] # {}
          /\ outcome' = [outcome EXCEPT ![t] = "update_failed"]
          /\ Notify(t)
          /\ UNCHANGED <<dbvars, db_writes>>
       \/ /\ new_products_data[t] # {}
          /\ update_delisted_urls(urls_of(products), new_products_data[t])
                \cup (new_products_data[t] \ urls_of(products)) # {}
          /\ LET r == update_products_raises(DB, new_products_data[t])
             IN  /\ SetDB(r.db)
                 /\ db_writes' = [db_writes EXCEPT ![t] = @ \cup r.ops]
                 /\ outcome' = [outcome EXCEPT ![t] = "event_write_failed"]
                 /\ Notify(t)
    /\ UNCHANGED <<today, botvars, locals, attempt, surfaced, fetchvars, batchvars, recvars>>

\* insert_many raises for a reason other than the unique index
insert_many_error(coll) == [coll |-> coll, ok |-> FALSE]

\* update_products, lines 418-425 and 436-439: insert_many, or the
\* `except Exception` that returns False, followed by the notifications
InsertProducts(t) ==
    /\ pc[t] = "insert"
    /\ \E o \in insert_many(products, new_products_data[t])
                 \cup {insert_many_error(products)} :
         /\ products' = o.coll
         /\ IF o.ok
            THEN /\ db_writes' = [db_writes EXCEPT ![t] =
                       @ \cup {Op("products", "insert", u) : u \in new_products_data[t]}]
                 /\ pc' = [pc EXCEPT ![t] = "sync"]
                 /\ UNCHANGED <<outcome, exc>>
            ELSE /\ outcome' = [outcome EXCEPT ![t] = "update_failed"]
                 /\ Notify(t)
                 /\ UNCHANGED db_writes
    /\ UNCHANGED <<history, new, delisted, resale, today, botvars, locals,
                   attempt, surfaced, fetchvars, batchvars, recvars>>

\* update_products, lines 426-434: steps 9 and 10 and `return True`; then the
\* notifications of check_updates
SyncAndClean(t) ==
    /\ pc[t] = "sync"
    /\ LET r == update_products_tail(DB, new_products_data[t], today)
       IN  /\ SetDB(r.db)
           /\ db_writes' = [db_writes EXCEPT ![t] = @ \cup r.ops]
    /\ outcome' = [outcome EXCEPT ![t] = "completed"]
    /\ Notify(t)
    /\ UNCHANGED <<today, botvars, locals, attempt, surfaced, fetchvars, batchvars, recvars>>

\* check_updates, lines 424-431: except Exception
OuterExcept(t) ==
    /\ pc[t] = "except"
    /\ \E sendOk \in BOOLEAN :
         exc' = [exc EXCEPT ![t] = check_updates_except(exc[t], sendOk)]
    /\ pc' = [pc EXCEPT ![t] = "returned"]
    /\ UNCHANGED <<dbvars, today, botvars, locals, attempt, outcome, surfaced,
                   db_writes, fetchvars, batchvars, recvars>>

\* check_updates is called again whenever attempts remain
retries_always(e, n) == n < max_retries
\* check_updates_with_retry, lines 438-445: the loop goes on to the next
\* attempt only from `except FetchProductError` and while attempt < max_retries;
\* a normal return and any other exception end in `break`
retries(e, n) == e = "FetchProductError" /\ n < max_retries

\* check_updates_with_retry, lines 436-458: what follows `await check_updates(ctx)`.
\* clean_duplicate_history calls monitor.delete_duplicate_history, which
\* ChiikawaMonitor does not define: the AttributeError is caught and logged
\* and no collection is touched.
AfterCheck(t) ==
    /\ pc[t] = "returned"
    /\ IF retries(exc[t], attempt[t])
       THEN /\ attempt' = [attempt EXCEPT ![t] = @ + 1]
            /\ ReadBaseline(t)
            /\ UNCHANGED surfaced
       ELSE /\ surfaced' = [surfaced EXCEPT ![t] = exc[t] = "FetchProductError"]
            /\ pc' = [pc EXCEPT ![t] = "idle"]
            /\ attempt' = [attempt EXCEPT ![t] = 0]
            /\ exc' = [exc EXCEPT ![t] = "none"]
            /\ outcome' = [outcome EXCEPT ![t] = "none"]
            /\ db_writes' = [db_writes EXCEPT ![t] = {}]
            /\ NoLocals(t)
    /\ UNCHANGED <<dbvars, today, botvars, fetchvars, batchvars, recvars>>

\* the steps of a task inside check_updates_with_retry
Step(t) ==
    \/ VerifyAndClassify(t)
    \/ Probe(t)
    \/ RecordDelisted(t)
    \/ RecordNew(t)
    \/ UpdateProducts(t)
    \/ InsertProducts(t)
    \/ SyncAndClean(t)
    \/ OuterExcept(t)
    \/ AfterCheck(t)

\* the bot as the code schedules it: nothing keeps the cycle of the start
\* command and an iteration of the loop apart
NextConc ==
    \/ Tick
    \/ start_monitoring
    \/ auto_monitor
    \/ stop_monitoring
    \/ \E t \in Tasks : Step(t)

SpecConc == Init /\ [][NextConc]_vars

\* the start command arrives while the loop task is between two iterations
start_monitoring_alone == pc["loop"] = "idle" /\ start_monitoring
\* the iteration of the loop starts after the cycle of the start command ended
auto_monitor_alone == pc["cmd"] = "idle" /\ auto_monitor

\* the bot under the scheduling the design assumes: a cycle runs to completion
\* before the next one starts
Next ==
    \/ Tick
    \/ start_monitoring_alone
    \/ auto_monitor_alone
    \/ stop_monitoring
    \/ \E t \in Tasks : VerifyAndClassify(t)
    \/ \E t \in Tasks : Probe(t)
    \/ \E t \in Tasks : RecordDelisted(t)
    \/ \E t \in Tasks : RecordNew(t)
    \/ \E t \in Tasks : UpdateProducts(t)
    \/ \E t \in Tasks : InsertProducts(t)
    \/ \E t \in Tasks : SyncAndClean(t)
    \/ \E t \in Tasks : OuterExcept(t)
    \/ \E t \in Tasks : AfterCheck(t)

Spec == Init /\ [][Next]_vars

\* --------------------------------------------- update_products in two threads
\* check_updates, line 357: run_in_executor hands update_products, with a
\* catalog fetch_products returned, to a thread of the default executor
CallUpdate(t) ==
    /\ pc[t] = "idle"
    /\ cycles < MaxCycles
    /\ cycles' = cycles + 1
    /\ \E data \in SUBSET URLs :
         new_products_data' = [new_products_data EXCEPT ![t] = data]
    /\ pc' = [pc EXCEPT ![t] = "update"]
    /\ UNCHANGED <<dbvars, today, monitoring_channel_id, loop_running,
                   old_products, check_count, current_products,
                   verification_results, new_listings, missing_products,
                   delisted_list, response, todo, attempt, exc, outcome, surfaced,
                   db_writes, fetchvars, batchvars, recvars>>

\* update_products, lines 319-322, called with the empty list: it logs a
\* warning and returns None
UpdateEmpty(t) ==
    /\ pc[t] = "update"
    /\ new_products_data[t] = {}
    /\ LET r == update_products(DB, new_products_data[t], today)
       IN  /\ SetDB(r.db)
           /\ db_writes' = [db_writes EXCEPT ![t] = @ \cup r.ops]
    /\ outcome' = [outcome EXCEPT ![t] = "no_data"]
    /\ pc' = [pc EXCEPT ![t] = "returned"]
    /\ UNCHANGED <<today, botvars, locals, attempt, exc, surfaced, fetchvars,
                   batchvars, recvars>>

\* the call has returned and its caller has ended
ReturnUpdate(t) ==
    /\ pc[t] \in {"returned", "except"}
    /\ pc' = [pc EXCEPT ![t] = "idle"]
    /\ exc' = [exc EXCEPT ![t] = "none"]
    /\ outcome' = [outcome EXCEPT ![t] = "none"]
    /\ db_writes' = [db_writes EXCEPT ![t] = {}]
    /\ NoLocals(t)
    /\ UNCHANGED <<dbvars, today, botvars, attempt, surfaced, fetchvars, batchvars, recvars>>

\* the calls of update_products that overlapping cycles make, interleaved at
\* the delete-all of the products collection
NextStore ==
    \/ \E t \in Tasks : CallUpdate(t)
    \/ \E t \in Tasks : UpdateEmpty(t)
    \/ \E t \in Tasks : UpdateProducts(t)
    \/ \E t \in Tasks : InsertProducts(t)
    \/ \E t \in Tasks : SyncAndClean(t)
    \/ \E t \in Tasks : ReturnUpdate(t)

SpecStore == Init /\ [][NextStore]_vars

\* ------------------------------------------------------------ fetch_products
\* sequences over S of length at most n
SeqsUpTo(S, n) == UNION {[1..k -> S] : k \in 0..n}

\* only a product without a handle is skipped
skip_product_no_seen(handle, seen) == handle = ""
\* line 247: if not handle or handle in seen_handles: continue
skip_product(handle, seen) == handle = "" \/ handle \in seen
\* lines 254-258: price = int(float(variant.get('price', 0))) raises on a
\* price that is not a number
price_raises(product) == product.price = "n/a"
\* line 272: product_url = f"{self.base_url}/zh-hant/products/{handle}"
product_url(handle) == base_url \o "/zh-hant/products/" \o handle
\* lines 273-281: the product appended to new_products_data
fetched_product(product) ==
    [url |-> product_url(product.handle), name |-> product.title, price |-> 100]

\* lines 244-288: the products of one page; a product without a handle or
\* with a handle seen before is skipped, the handle is added to seen_handles,
\* and a product whose processing raises is dropped (except Exception: continue)
RECURSIVE add_page(_, _, _, _)
add_page(hs, i, data, seen) ==
    IF i > Len(hs) THEN [data |-> data, seen |-> seen]
    ELSE IF skip_product(hs[i].handle, seen)
         THEN add_page(hs, i + 1, data, seen)
         ELSE IF price_raises(hs[i])
         THEN add_page(hs, i + 1, data, seen \cup {hs[i].handle})
         ELSE add_page(hs, i + 1, Append(data, fetched_product(hs[i])),
                       seen \cup {hs[i].handle})

\* the first product served for each handle, after the page hs
FirstServed(first, hs) ==
    LET here == {hs[i].handle : i \in 1..Len(hs)} \ {""}
    IN  [h \in DOMAIN first \cup here |->
            IF h \in DOMAIN first THEN first[h]
            ELSE hs[Min({i \in 1..Len(hs) : hs[i].handle = h})]]

\* lines 224-236 and 297-299: what the pagination loop does when a page
\* request fails: break, and line 303 returns the list built so far
on_page_failure(data) == data

\* the bot is idle over an empty store
IdleBot ==
    /\ products = EmptyBag
    /\ history = EmptyBag /\ new = EmptyBag /\ delisted = EmptyBag
    /\ resale = {}
    /\ today = 0
    /\ monitoring_channel_id = None
    /\ loop_running = FALSE
    /\ cycles = 0
    /\ pc = [t \in Tasks |-> "idle"]
    /\ attempt = [t \in Tasks |-> 0]
    /\ old_products = [t \in Tasks |-> {}]
    /\ check_count = [t \in Tasks |-> 0]
    /\ current_products = [t \in Tasks |-> {}]
    /\ verification_results = [t \in Tasks |-> <<>>]
    /\ new_products_data = [t \in Tasks |-> {}]
    /\ new_listings = [t \in Tasks |-> {}]
    /\ missing_products = [t \in Tasks |-> {}]
    /\ delisted_list = [t \in Tasks |-> {}]
    /\ response = [t \in Tasks |-> <<>>]
    /\ todo = [t \in Tasks |-> {}]
    /\ exc = [t \in Tasks |-> "none"]
    /\ outcome = [t \in Tasks |-> "none"]
    /\ surfaced = [t \in Tasks |-> FALSE]
    /\ db_writes = [t \in Tasks |-> {}]

\* the call starts: for attempt in range(max_retries)
InitFetch ==
    /\ IdleBot
    /\ f_pc = "base" /\ f_attempt = 0 /\ f_page = 0 /\ f_data = <<>>
    /\ f_seen = {} /\ f_first = <<>> /\ f_last = "none" /\ f_result = <<>>
    /\ NoBatch
    /\ NoRecord

\* the same attempt is made again
next_attempt_same(n) == n
\* line 127: for attempt in range(max_retries), the value of the next turn
next_attempt(n) == n + 1

\* lines 140-153, 177-206, 308-312: a failed attempt is followed by the next
\* one while attempts remain, else fetch_products returns []
RetryOrFail ==
    /\ IF f_attempt < fetch_max_retries - 1
       THEN /\ f_attempt' = next_attempt(f_attempt)
            /\ f_pc' = "base"
            /\ UNCHANGED f_result
       ELSE /\ f_pc' = "done"
            /\ f_result' = <<>>
            /\ UNCHANGED f_attempt
    /\ f_page' = 0 /\ f_data' = <<>> /\ f_seen' = {} /\ f_first' = <<>>

\* lines 132-153: the request to the base url
BaseTest ==
    /\ f_pc = "base"
    /\ \E answer \in {"ok", "http_error", "exception"} :
         /\ f_last' = answer
         /\ IF answer = "ok"
            THEN /\ f_pc' = "api"
                 /\ UNCHANGED <<f_attempt, f_page, f_data, f_seen, f_first, f_result>>
            ELSE RetryOrFail
    /\ UNCHANGED <<dbvars, today, botvars, locals, ctlvars, batchvars, recvars>>

\* lines 155-213: the request of one product to the API
ApiTest ==
    /\ f_pc = "api"
    /\ \E answer \in {"ok"} \cup PageFailures :
         /\ f_last' = answer
         /\ IF answer = "ok"
            THEN /\ f_pc' = "page"
                 /\ f_page' = 1 /\ f_data' = <<>> /\ f_seen' = {} /\ f_first' = <<>>
                 /\ UNCHANGED <<f_attempt, f_result>>
            ELSE RetryOrFail
    /\ UNCHANGED <<dbvars, today, botvars, locals, ctlvars, batchvars, recvars>>

\* lines 215-303: one turn of `while True`, a page of products
PageOk ==
    /\ f_pc = "page"
    /\ \E hs \in SeqsUpTo(UpstreamProducts, MaxPageLen) :
         LET r == add_page(hs, 1, f_data, f_seen)
             page_count == Len(r.data) - Len(f_data)
         IN  /\ hs # <<>> => f_page <= MaxPages
             /\ f_last' = IF hs = <<>> THEN "empty" ELSE "ok"
             /\ f_data' = r.data
             /\ f_seen' = r.seen
             /\ f_first' = FirstServed(f_first, hs)
             /\ IF hs = <<>> \/ page_count = 0
                THEN /\ f_pc' = "done"
                     /\ f_result' = r.data
                     /\ UNCHANGED f_page
                ELSE /\ f_page' = f_page + 1
                     /\ UNCHANGED <<f_pc, f_result>>
    /\ UNCHANGED <<dbvars, today, botvars, locals, ctlvars, batchvars, recvars, f_attempt>>

\* lines 215-303: one turn of `while True`, a page request that fails
PageFails ==
    /\ f_pc = "page"
    /\ \E answer \in PageFailures :
         /\ f_last' = answer
         /\ f_pc' = "done"
         /\ f_result' = on_page_failure(f_data)
    /\ UNCHANGED <<dbvars, today, botvars, locals, ctlvars, batchvars, recvars, f_attempt, f_page,
                   f_data, f_seen, f_first>>

NextFetch ==
    \/ BaseTest
    \/ ApiTest
    \/ PageOk
    \/ PageFails

SpecFetch == InitFetch /\ [][NextFetch]_vars

\* ------------------------------------------ the batch loops of check_updates
\* line 314: batch_size = 20, the probes; line 341: batch_size = 50, the
\* record_history calls of the new listings
probe_batch_size == 20
new_batch_size == 50
batch_size(kind) == IF kind = "probe" THEN probe_batch_size ELSE new_batch_size
\* the longest list of candidates or new listings followed
MaxItems == 101

\* the slice runs to the end of the list
batch_to_end(i, size, len) == (i + 1)..len
\* lines 316, 343: batch = items[i:i + batch_size], as positions 1..len
batch(i, size, len) == (i + 1)..(IF i + size < len THEN i + size ELSE len)

\* check_updates reaches `if missing_products:` or `if new_listings:` with a
\* list of b_len items
InitBatch ==
    /\ IdleBot
    /\ f_pc = "off" /\ f_attempt = 0 /\ f_page = 0 /\ f_data = <<>>
    /\ f_seen = {} /\ f_first = <<>> /\ f_last = "none" /\ f_result = <<>>
    /\ b_phase = "for"
    /\ b_kind \in {"probe", "new"}
    /\ b_len \in 0..MaxItems
    /\ b_i = 0 /\ b_inflight = 0 /\ b_down = 0
    /\ b_done = [k \in 1..b_len |-> 0]
    /\ NoRecord

\* lines 315-320, 342-349: the next turn of `for i in range(0, len, batch_size)`:
\* run_in_executor is called for every item of the batch, or the loop ends
Dispatch ==
    /\ b_phase = "for"
    /\ IF b_i < b_len
       THEN LET items == batch(b_i, batch_size(b_kind), b_len)
            IN  /\ b_inflight' = b_inflight + Cardinality(items)
                /\ b_done' = [k \in 1..b_len |->
                                IF k \in items THEN b_done[k] + 1 ELSE b_done[k]]
                /\ b_phase' = "gather"
       ELSE /\ b_phase' = "done"
            /\ UNCHANGED <<b_inflight, b_done>>
    /\ UNCHANGED <<dbvars, today, botvars, locals, ctlvars, fetchvars, recvars,
                   b_kind, b_len, b_i, b_down>>

\* a thread of the executor ends its check_product_url or record_history
Complete ==
    /\ b_phase = "gather"
    /\ b_inflight > 0
    /\ b_inflight' = b_inflight - 1
    /\ UNCHANGED <<dbvars, today, botvars, locals, ctlvars, fetchvars, recvars,
                   b_phase, b_kind, b_len, b_i, b_down, b_done>>

\* lines 317-323, 344-351: `await asyncio.gather(..)` returns when every future
\* of the batch has completed; of the probes of the batch some found the
\* product unreachable
Gathered ==
    /\ b_phase = "gather"
    /\ b_inflight = 0
    /\ IF b_kind = "probe"
       THEN /\ b_down' \in 0..Cardinality(batch(b_i, batch_size(b_kind), b_len))
            /\ b_phase' = "zip"
            /\ UNCHANGED b_i
       ELSE /\ b_i' = b_i + batch_size(b_kind)
            /\ b_phase' = "for"
            /\ UNCHANGED b_down
    /\ UNCHANGED <<dbvars, today, botvars, locals, ctlvars, fetchvars, recvars,
                   b_kind, b_len, b_inflight, b_done>>

\* lines 323-331: the loop over the results of the batch awaits one
\* record_history(.., 'delisted') per unreachable product, then the batch
\* loop goes on
RecordBatch ==
    /\ b_phase = "zip"
    /\ IF b_down > 0
       THEN /\ b_down' = b_down - 1
            /\ UNCHANGED <<b_phase, b_i>>
       ELSE /\ b_i' = b_i + batch_size(b_kind)
            /\ b_phase' = "for"
            /\ UNCHANGED b_down
    /\ UNCHANGED <<dbvars, today, botvars, locals, ctlvars, fetchvars, recvars,
                   b_kind, b_len, b_inflight, b_done>>

NextBatch ==
    \/ Dispatch
    \/ Complete
    \/ Gathered
    \/ RecordBatch

SpecBatch == InitBatch /\ [][NextBatch]_vars

\* --------------------------------------------- record_history in two threads
\* check_updates, lines 325-328 and 344-348: run_in_executor hands
\* record_history, with a product and a type, to a thread of the default
\* executor; the cycles of the loop and of the command may overlap
CallRecord(t) ==
    /\ r_pc[t] = "off"
    /\ cycles < MaxCycles
    /\ cycles' = cycles + 1
    /\ \E u \in URLs, ty \in {"new", "delisted"} :
         /\ r_url' = [r_url EXCEPT ![t] = u]
         /\ r_type' = [r_type EXCEPT ![t] = ty]
    /\ r_pc' = [r_pc EXCEPT ![t] = "find"]
    /\ UNCHANGED <<dbvars, today, monitoring_channel_id, loop_running, locals,
                   ctlvars, fetchvars, batchvars, r_was_delisted, r_ret>>

\* record_history, lines 642-653: exists = self.history.find_one(..); if
\* exists: return False
FindExists(t) ==
    /\ r_pc[t] = "find"
    /\ IF history_exists(history, r_url[t], r_type[t], today)
       THEN /\ r_ret' = [r_ret EXCEPT ![t] = "false"]
            /\ r_pc' = [r_pc EXCEPT ![t] = "done"]
       ELSE /\ r_pc' = [r_pc EXCEPT ![t] =
                  IF r_type[t] = "new" THEN "was_delisted" ELSE "insert"]
            /\ UNCHANGED r_ret
    /\ UNCHANGED <<dbvars, today, botvars, locals, ctlvars, fetchvars, batchvars,
                   r_url, r_type, r_was_delisted>>

\* lines 685-687: was_delisted = self.delisted.find_one({'url': url})
FindDelisted(t) ==
    /\ r_pc[t] = "was_delisted"
    /\ r_was_delisted' = [r_was_delisted EXCEPT ![t] = find_one_url(delisted, r_url[t])]
    /\ r_pc' = [r_pc EXCEPT ![t] =
          IF find_one_url(delisted, r_url[t]) THEN "delete" ELSE "insert"]
    /\ UNCHANGED <<dbvars, today, botvars, locals, ctlvars, fetchvars, batchvars,
                   r_url, r_type, r_ret>>

\* lines 689-692: self.delisted.delete_many({'url': url})
DeleteDelisted(t) ==
    /\ r_pc[t] = "delete"
    /\ delisted' = delete_many_urls(delisted, {r_url[t]})
    /\ db_writes' = [db_writes EXCEPT ![t] = @ \cup {Op("delisted", "delete", r_url[t])}]
    /\ r_pc' = [r_pc EXCEPT ![t] = "insert"]
    /\ UNCHANGED <<products, history, new, resale, today, botvars, locals, pc,
                   attempt, exc, outcome, surfaced, fetchvars, batchvars,
                   r_url, r_type, r_was_delisted, r_ret>>

\* lines 720-723: except Exception: the error is logged, return False
record_history_except(t) ==
    /\ r_ret' = [r_ret EXCEPT ![t] = "false"]
    /\ r_pc' = [r_pc EXCEPT ![t] = "done"]

\* lines 694-705 and 711-712: self.new.insert_one(new_data) or
\* self.delisted.insert_one(history_data); the insert may raise
InsertTyped(t) ==
    /\ r_pc[t] = "insert"
    /\ \/ /\ IF r_type[t] = "new"
             THEN /\ new' = insert_one(new,
                              Stocked(Event(r_url[t], "new", today,
                                 IF r_was_delisted[t] THEN "true" ELSE "false")))
                  /\ UNCHANGED delisted
             ELSE /\ delisted' = insert_one(delisted,
                                   Event(r_url[t], "delisted", today, "absent"))
                  /\ UNCHANGED new
          /\ db_writes' = [db_writes EXCEPT ![t] =
                @ \cup {Op(r_type[t], "insert", r_url[t])}]
          /\ r_pc' = [r_pc EXCEPT ![t] = "history"]
          /\ UNCHANGED r_ret
       \/ /\ record_history_except(t)
          /\ UNCHANGED <<new, delisted, db_writes>>
    /\ UNCHANGED <<products, history, resale, today, botvars, locals, pc,
                   attempt, exc, outcome, surfaced, fetchvars, batchvars,
                   r_url, r_type, r_was_delisted>>

\* lines 708-709 and 713-717: self.history.insert_one(history_data); return
\* True; the insert may raise
InsertHistory(t) ==
    /\ r_pc[t] = "history"
    /\ \/ /\ history' = insert_one(history,
                            Event(r_url[t], r_type[t], today, "absent"))
          /\ db_writes' = [db_writes EXCEPT ![t] =
                @ \cup {Op("history", "insert", r_url[t])}]
          /\ r_ret' = [r_ret EXCEPT ![t] = "true"]
          /\ r_pc' = [r_pc EXCEPT ![t] = "done"]
       \/ /\ record_history_except(t)
          /\ UNCHANGED <<history, db_writes>>
    /\ UNCHANGED <<products, new, delisted, resale, today, botvars, locals, pc,
                   attempt, exc, outcome, surfaced, fetchvars, batchvars,
                   r_url, r_type, r_was_delisted>>

\* the future of the call is done and its value was taken
ReturnRecord(t) ==
    /\ r_pc[t] = "done"
    /\ r_pc' = [r_pc EXCEPT ![t] = "off"]
    /\ r_url' = [r_url EXCEPT ![t] = None]
    /\ r_type' = [r_type EXCEPT ![t] = None]
    /\ r_was_delisted' = [r_was_delisted EXCEPT ![t] = FALSE]
    /\ r_ret' = [r_ret EXCEPT ![t] = "none"]
    /\ db_writes' = [db_writes EXCEPT ![t] = {}]
    /\ UNCHANGED <<dbvars, today, botvars, locals, pc, attempt, exc, outcome,
                   surfaced, fetchvars, batchvars>>

\* the calls of record_history that overlapping cycles make, interleaved at
\* their database operations
NextRecord ==
    \/ \E t \in Tasks : CallRecord(t)
    \/ \E t \in Tasks : FindExists(t)
    \/ \E t \in Tasks : FindDelisted(t)
    \/ \E t \in Tasks : DeleteDelisted(t)
    \/ \E t \in Tasks : InsertTyped(t)
    \/ \E t \in Tasks : InsertHistory(t)
    \/ \E t \in Tasks : ReturnRecord(t)

SpecRecord == Init /\ [][NextRecord]_vars

\* ------------------------------------------------------------- termination
\* a cycle of the bot (over the aged store or over the empty one), a call of
\* fetch_products or a batch loop, each followed on its own
InitLive ==
    \/ Init /\ (history # EmptyBag \/ products = EmptyBag)
    \/ InitFetch
    \/ InitBatch
NextLive ==
    \/ f_pc = "off" /\ b_phase = "off" /\ Next
    \/ NextFetch
    \/ NextBatch
\* the event loop resumes every coroutine whose await has completed, the
\* executor runs every call handed to it, and every request returns or times
\* out (timeout=30 on the page requests, timeout=10 on the probes)
Fairness ==
    /\ \A t \in Tasks : WF_vars(Step(t))
    /\ WF_vars(NextFetch)
    /\ WF_vars(NextBatch)
SpecLive == InitLive /\ [][NextLive]_vars /\ Fairness

\* ================================================================== claims
\* positions of a task at which check_updates has ended
Ended == {"except", "returned"}
\* positions of a task after the verification fetches
PastFetch == {"probe", "record_delisted", "record_new", "update", "insert", "sync"}
             \cup Ended
\* the three verification fetches of the task returned and agree / disagree
Verified(t) ==
    /\ Len(verification_results[t]) = NumChecks
    /\ \A i, j \in 1..NumChecks :
         verification_results[t][i] = verification_results[t][j]
Disagree(t) ==
    /\ Len(verification_results[t]) = NumChecks
    /\ \E i, j \in 1..NumChecks :
         verification_results[t][i] # verification_results[t][j]
\* the urls for which the task inserted an event into collection c
Inserted(t, c) == {u \in URLs : Op(c, "insert", u) \in db_writes[t]}
\* events of one url, type and day held by a collection
CountOf(coll, u, ty, d) ==
    BagCardinality([e \in {x \in DOMAIN coll :
                             x.url = u /\ x.type = ty /\ x.day = d} |-> coll[e]])

\* C1: on a non-first run whose three verification fetches do not all yield
\* the same url set, check_updates ends without having issued a write to
\* products, history, new, delisted or resale; the Snapshot Store still is
\* the baseline.
C1_InconsistentNoWrite ==
    \A t \in Tasks :
        (pc[t] \in PastFetch /\ old_products[t] # {} /\ Disagree(t))
            => /\ pc[t] \in Ended
               /\ outcome[t] = "inconsistent"
               /\ db_writes[t] = {}
               /\ products = SetToBag(old_products[t])
C1_Witness ==
    \E t \in Tasks :
        /\ pc[t] = "returned" /\ outcome[t] = "inconsistent"
        /\ old_products[t] = {"A"}
        /\ verification_results[t] = <<{"A"}, {"A", "B"}, {"A"}>>
        /\ history # EmptyBag

\* C2: for every (url, type) and calendar day the history ledger holds at
\* most one event, and so does the new / delisted collection.
C2_DailyDedup ==
    \A u \in URLs, ty \in {"new", "delisted"}, d \in 0..MaxDay :
        /\ CountOf(history, u, ty, d) <= 1
        /\ CountOf(new, u, ty, d) <= 1
        /\ CountOf(delisted, u, ty, d) <= 1

\* C3: when a cycle has completed, a delisted candidate whose probe succeeded
\* got no delisted record in the delisted collection or the history ledger,
\* and the urls that got a delisted record are exactly the delisted list
\* reported to the notifier.
C3_DelistedOnlyWhenProbeFails ==
    \A t \in Tasks :
        (pc[t] \in Ended /\ outcome[t] = "completed")
            => /\ \A u \in missing_products[t] \ delisted_list[t] :
                    /\ u \notin Inserted(t, "delisted")
                    /\ u \notin Inserted(t, "history")
               /\ Inserted(t, "delisted") = delisted_list[t]

\* C4: when a first-run cycle (empty Snapshot Store, three non-empty fetches)
\* has ended, the Snapshot Store holds the fetched catalog, so it is not empty.
C4_FirstRunSeedsSnapshot ==
    \A t \in Tasks :
        (pc[t] = "returned" /\ outcome[t] = "first_run")
            => /\ products = SetToBag(new_products_data[t])
               /\ products # EmptyBag

\* C5: a cycle that found the Snapshot Store empty when it read the baseline
\* inserts nothing into the history, new or delisted collections, whatever
\* the fetches returned.
C5_FirstRunNoEvents ==
    \A t \in Tasks :
        (pc[t] # "idle" /\ old_products[t] = {})
            => /\ Inserted(t, "history") = {}
               /\ Inserted(t, "new") = {}
               /\ Inserted(t, "delisted") = {}
               /\ pc[t] \in {"fetch"} \cup Ended
C5_Witness ==
    \E t \in Tasks :
        /\ pc[t] = "returned" /\ outcome[t] = "first_run"
        /\ old_products[t] = {}
        /\ new_products_data[t] = {"A", "B"}

\* C6: when a request of fetch_products failed (non-200 status, JSON error,
\* malformed payload or exception) and fetch_products has returned after it,
\* the list returned is empty.
C6_NoPartialCatalog ==
    (f_pc = "done" /\ f_last \in PageFailures) => f_result = <<>>

\* C7: when check_updates has ended on a failed verification fetch,
\* check_updates_with_retry calls check_updates again while fewer than
\* max_retries calls were made, and after the last call it sends the
\* "failed several times" message and stops.
C7_RetryOnFetchFailure ==
    [][\A t \in Tasks :
          (/\ pc[t] = "returned" /\ outcome[t] = "fetch_failed"
           /\ pc'[t] # "returned" /\ loop_running' = loop_running)
              => IF attempt[t] < max_retries
                 THEN pc'[t] = "fetch" /\ attempt'[t] = attempt[t] + 1
                 ELSE pc'[t] = "idle" /\ surfaced'[t]]_vars

\* C8: at most one task is inside check_updates_with_retry at any time.
C8_OneCycleAtATime ==
    Cardinality({t \in Tasks : pc[t] # "idle"}) <= 1

\* C9: when a verification fetch returned the empty list, no further fetch
\* was made, FetchProductError was raised, check_updates ends as a fetch
\* failure and has issued no write to any collection.
C9_EmptyFetchAborts ==
    \A t \in Tasks :
        (/\ pc[t] \notin {"idle", "fetch"}
         /\ \/ current_products[t] = {}
            \/ \E i \in 1..Len(verification_results[t]) :
                  verification_results[t][i] = {})
            => /\ pc[t] \in Ended
               /\ outcome[t] = "fetch_failed"
               /\ pc[t] = "except" => exc[t] = "FetchProductError"
               /\ Len(verification_results[t]) = check_count[t]
               /\ check_count[t] < NumChecks
               /\ \A i \in 1..Len(verification_results[t]) :
                     verification_results[t][i] # {}
               /\ db_writes[t] = {}
               /\ products = SetToBag(old_products[t])
C9_Witness ==
    \E t \in Tasks :
        /\ pc[t] = "returned" /\ outcome[t] = "fetch_failed"
        /\ old_products[t] = {"A"}
        /\ verification_results[t] = <<{"A", "B"}>>
        /\ current_products[t] = {}

\* C10: on a non-first run whose three fetches yield the same url set, the
\* new listings are that set minus the baseline urls and the delisted
\* candidates the baseline urls minus that set; both are empty when the set
\* equals the baseline.
C10_Diffs ==
    \A t \in Tasks :
        (pc[t] \in PastFetch /\ old_products[t] # {} /\ Verified(t))
            => LET live == verification_results[t][NumChecks]
               IN  /\ new_listings[t] = live \ old_products[t]
                   /\ missing_products[t] = old_products[t] \ live
                   /\ live = old_products[t]
                        => new_listings[t] = {} /\ missing_products[t] = {}
C10_Witness ==
    \E t \in Tasks :
        /\ pc[t] = "update"
        /\ old_products[t] = {"A"}
        /\ new_listings[t] = {"B"}
        /\ missing_products[t] = {"A"}

\* the task has found a delisted record of url u in this cycle: the record is
\* in the collection, or record_history has removed it
Relisted(t, u) ==
    \/ find_one_url(delisted, u)
    \/ /\ pc[t] \in {"record_new", "update"}
       /\ Op("delisted", "delete", u) \in db_writes[t]
\* the events of type 'new' of url u that a step adds to a collection
Added(coll, collNext, u) ==
    {e \in DOMAIN collNext :
        /\ e.url = u /\ e.type = "new"
        /\ CopiesIn(e, collNext) > CopiesIn(e, coll)}

\* C11: when a url that has a record in the delisted collection is among the
\* new listings of a cycle, every 'new' event the cycle adds for it, to the
\* new collection or to the history ledger, carries is_restock = true.
C11_RestockFlag ==
    [][\A t \in Tasks, u \in URLs :
          (/\ pc[t] \in {"record_new", "update"}
           /\ pc'[t] \in {"record_new", "update", "insert"}
           /\ u \in new_listings[t]
           /\ Relisted(t, u))
              => \A e \in Added(new, new', u) \cup Added(history, history', u) :
                    e.is_restock = "true"]_vars

\* the collection holds a restock entry of url u
HasEntry(res, u) == \E e \in res : e.url = u

C13_LiveNotDelisted ==
    \A t \in Tasks :
        (pc[t] \in Ended /\ outcome[t] = "completed")
            => \A u \in urls_of(products) : ~find_one_url(delisted, u)

\* C14: a restock entry whose next_resale_date has passed, of a product that
\* carries no restock tag dated today or later, is no longer in the resale
\* collection once update_products has processed the catalog.
C14_ExpiredRestockRemoved ==
    [][\A t \in Tasks :
          (pc[t] = "update" /\ pc'[t] = "insert")
              => \A e \in resale :
                    (/\ e.next_resale_date < today
                     /\ \A d \in RestockTagDays(e.url) : d < today)
                        => e \notin resale']_vars

\* C15: when a cycle has ended on an exception (a failed verification fetch,
\* a storage failure inside update_products), the Snapshot Store is the
\* baseline the cycle read, the content the last successful cycle left.
C15_AbortKeepsSnapshot ==
    \A t \in Tasks :
        (pc[t] \in Ended /\ outcome[t] \in {"fetch_failed", "update_failed"})
            => products = SetToBag(old_products[t])

NoneOlder(coll, now, n) == \A e \in DOMAIN coll : now - e.day <= n
\* what an event states: its url, type, day and restock flag
Fact(e) == [url |-> e.url, type |-> e.type, day |-> e.day, is_restock |-> e.is_restock]
Facts(coll) == BagOfAll(Fact, coll)
\* every event that is at most n days old is in the collection as often as it was
KeepsYounger(coll, collNext, now, n) ==
    \A f \in DOMAIN Facts(coll) :
        now - f.day <= n => CopiesIn(f, Facts(collNext)) = CopiesIn(f, Facts(coll))

\* C17: when a cycle ends successfully (the first run, or a run whose
\* update_products completed), the new and delisted collections hold no
\* event older than 7 days and the history ledger none older than 30 days,
\* and the step that pruned removed no event within the window.
C17_Retention ==
    [][\A t \in Tasks :
          (/\ pc[t] \in {"fetch", "sync"}
           /\ pc'[t] \in Ended
           /\ outcome'[t] \in {"first_run", "completed"})
              => /\ NoneOlder(new', today, SevenDays)
                 /\ NoneOlder(delisted', today, SevenDays)
                 /\ NoneOlder(history', today, ThirtyDays)
                 /\ KeepsYounger(new, new', today, SevenDays)
                 /\ KeepsYounger(delisted, delisted', today, SevenDays)
                 /\ KeepsYounger(history, history', today, ThirtyDays)]_vars

\* the history ledger holds an event of url u and type ty dated today
SameDay(u, ty) ==
    \E e \in DOMAIN history : e.url = u /\ e.type = ty /\ e.day >= today
\* the task makes its call record_history(u, ty) in this step
Records(t, u, ty) ==
    /\ pc[t] = "record_" \o ty
    /\ pc'[t] \in {"record_delisted", "record_new", "update"}
    /\ u \in todo[t]
    /\ \/ todo'[t] = todo[t] \ {u}
       \/ todo[t] = {u} /\ todo'[t] = new_listings[t]

\* C18: a call record_history(product, type) made while the history ledger
\* holds a same-day event of the same url and type returns False and leaves
\* the five collections as they are; no write is issued.
C18_DuplicateIsNoOp ==
    [][\A t \in Tasks, u \in URLs, ty \in {"new", "delisted"} :
          (Records(t, u, ty) /\ SameDay(u, ty))
              => /\ ~record_history(DB, u, ty, today).ret
                 /\ UNCHANGED dbvars
                 /\ db_writes'[t] = db_writes[t]]_vars
C18_Witness ==
    \E t \in Tasks :
        /\ pc[t] = "update"
        /\ new_listings[t] = {"A"}
        /\ CountOf(history, "A", "new", today) = 1
        /\ Op("history", "insert", "A") \notin db_writes[t]

\* C19: in every state, the one between the delete-all and the bulk insert
\* of update_products included, the products collection holds at most one
\* document per url.
C19_SnapshotUnique ==
    \A u \in URLs : CopiesIn(u, products) <= 1
C19_Witness ==
    \E t \in Tasks :
        LET o == CHOOSE x \in Tasks : x # t
        IN  /\ pc[o] = "returned" /\ outcome[o] = "completed"
            /\ new_products_data[o] = {"A"}
            /\ pc[t] = "returned" /\ outcome[t] = "update_failed"
            /\ new_products_data[t] = {"A", "B"}
            /\ products = SetToBag({"A", "B"})

\* C20: the list fetch_products returns holds no two products with the same
\* url, whatever the pages repeat, and each product in it is the first one
\* the upstream served for its handle.
C20_FetchDedup ==
    f_pc = "done"
        => /\ \A i, j \in 1..Len(f_result) :
                f_result[i].url = f_result[j].url => i = j
           /\ \A i \in 1..Len(f_result) :
                \E h \in DOMAIN f_first :
                    /\ f_result[i].url = product_url(h)
                    /\ f_result[i].name = f_first[h].title
                    /\ ~price_raises(f_first[h])
C20_Witness ==
    /\ f_pc = "done"
    /\ Len(f_result) = 2
    /\ f_page = 2
    /\ f_result[1].url = product_url("A") /\ f_result[1].name = "t1"
    /\ "A" \in DOMAIN f_first /\ f_first["A"].title = "t1"
    /\ f_last = "ok"

\* C21: fetch_products makes at most max_retries attempts, a request that
\* fails is followed by another attempt while attempts remain, and after
\* the failure of the last attempt it returns the empty list.
C21_FetchRetries ==
    [][/\ f_attempt' < fetch_max_retries
       /\ f_last' \in {"http_error", "exception"} \cup PageFailures
            => IF f_attempt < fetch_max_retries - 1
               THEN f_pc' = "base" /\ f_attempt' = f_attempt + 1
               ELSE f_pc' = "done" /\ f_result' = <<>>]_vars

\* the dates on or after today that the restock tags of product u yield
DatesToCome(u) ==
    {tag.day : tag \in {x \in ProductTags(u) :
                          /\ x.prefix = "RE2025" /\ x.len >= 10
                          /\ x.parses /\ x.day >= today}}
\* the resale entries of url u
EntriesOf(res, u) == {e \in res : e.url = u}

C23_ResaleUnique ==
    \A e1, e2 \in resale : e1.url = e2.url => e1 = e2
C23_Witness ==
    /\ today = 1
    /\ Event("A", "delisted", 0 - SevenDays, "absent") \in DOMAIN history
    /\ \A e \in DOMAIN new : e.url # "B"
    /\ EntriesOf(resale, "B") = {[url |-> "B", next_resale_date |-> 1]}
    /\ EntriesOf(resale, "A") = {[url |-> "A", next_resale_date |-> 0]}

\* C30: when update_products has run process_resale_items, a product of the
\* catalog with no restock tag dated today or later was the subject of no
\* upsert, and the resale entry of its url, if it was in the snapshot and
\* had one, is the one it had.
C30_NoDateNoUpsert ==
    [][\A t \in Tasks :
          (pc[t] = "update" /\ pc'[t] = "insert")
              => \A u \in new_products_data[t] :
                    DatesToCome(u) = {}
                        => /\ Op("resale", "upsert", u) \notin db_writes'[t]
                           /\ u \in urls_of(products)
                                => EntriesOf(resale', u) = EntriesOf(resale, u)]_vars
C30_Witness ==
    \E t \in Tasks :
        /\ pc[t] = "insert" /\ today = 1
        /\ "A" \in new_products_data[t] /\ "A" \in old_products[t]
        /\ Op("resale", "upsert", "A") \notin db_writes[t]
        /\ EntriesOf(resale, "A") = {[url |-> "A", next_resale_date |-> 0]}

\* C26: a call of check_updates that ended on three url sets that disagree
\* is not followed by another call in the same invocation of
\* check_updates_with_retry: it was the first call, and the invocation ends.
C26_InconsistentNotRetried ==
    [][\A t \in Tasks :
          (/\ pc[t] = "returned" /\ outcome[t] = "inconsistent"
           /\ pc'[t] # "returned")
              => pc'[t] = "idle" /\ attempt[t] = 1]_vars
C26_Witness ==
    \E t \in Tasks :
        /\ pc[t] = "returned" /\ outcome[t] = "inconsistent"
        /\ attempt[t] = 1 /\ exc[t] = "none"
        /\ old_products[t] = {"A", "B"}
        /\ verification_results[t] = <<{"A", "B"}, {"A", "B"}, {"B"}>>
        /\ db_writes[t] = {}

\* a step rewrites a field of an event of the collection: an event is there
\* less often, and the same event with another 'available' more often
Modified(coll, collNext) ==
    \E e \in DOMAIN coll, e2 \in DOMAIN collNext :
        /\ Fact(e) = Fact(e2) /\ e # e2
        /\ CopiesIn(e, collNext) < CopiesIn(e, coll)
        /\ CopiesIn(e2, collNext) > CopiesIn(e2, coll)

\* C24: no step of a cycle changes a field of an event that is in the history
\* ledger, the new collection or the delisted collection: events are only
\* inserted or deleted.
C24_EventsImmutable ==
    [][/\ ~Modified(history, history')
       /\ ~Modified(new, new')
       /\ ~Modified(delisted, delisted')]_vars

\* an insert_one of an event raised in update_products, called by the task
WriteFailed(t) ==
    \E c \in {"new", "delisted", "history"}, u \in URLs :
        Op(c, "failed", u) \in db_writes[t]

\* C25: a cycle in which the write of an event raised, and that met no other
\* storage failure, still ends as a completed cycle: update_products has
\* written the events of the other urls and rebuilt the Snapshot Store from
\* the catalog.
C25_EventFailureNotFatal ==
    \A t \in Tasks :
        (pc[t] \in Ended /\ WriteFailed(t) /\ outcome[t] # "update_failed")
            => /\ outcome[t] = "completed"
               /\ Inserted(t, "products") = new_products_data[t]
               /\ \A u \in new_listings[t] :
                     Op("new", "failed", u) \notin db_writes[t]
                        => CountOf(history, u, "new", today) >= 1

\* a step inserts an event into the collection
FactsGrow(coll, collNext) ==
    \E f \in DOMAIN Facts(collNext) :
        CopiesIn(f, Facts(collNext)) > CopiesIn(f, Facts(coll))
\* the operations on the products collection the task has issued
RebuildOps(t) == {o \in db_writes[t] : o.coll = "products"}
\* a step of the task issues the delete_many calls of clean_old_records
Prunes(t) ==
    \E c \in {"new", "delisted", "history"} :
        Op(c, "delete", "*") \in db_writes'[t] \ db_writes[t]

\* C27: a cycle issues a write to a collection only after its third
\* verification fetch returned and the three url sets agreed, on a run that
\* is not the first; it inserts events only while it has issued no operation
\* of the rebuild of the Snapshot Store, and it prunes only once the rebuild
\* (delete-all, then the insert of the catalog) is done.
C27_WriteOrder ==
    [][\A t \in Tasks :
          /\ ~(db_writes'[t] \subseteq db_writes[t])
                => /\ Verified(t) /\ old_products[t] # {}
                   /\ pc[t] \in {"record_delisted", "record_new", "update",
                                 "insert", "sync"}
          /\ (/\ pc[t] # "idle"
              /\ \/ FactsGrow(history, history')
                 \/ FactsGrow(new, new')
                 \/ FactsGrow(delisted, delisted'))
                => RebuildOps(t) = {}
          /\ Prunes(t)
                => /\ Op("products", "delete", "*") \in db_writes[t]
                   /\ Inserted(t, "products") = new_products_data[t]
                   /\ urls_of(products) = new_products_data[t]]_vars
C27_Witness ==
    \E t \in Tasks :
        /\ pc[t] = "returned" /\ outcome[t] = "completed" /\ today = 1
        /\ old_products[t] = {"B"} /\ new_products_data[t] = {"A", "B"}
        /\ Inserted(t, "history") = {"A"}
        /\ Op("history", "delete", "*") \in db_writes[t]
        /\ Stocked(Event("B", "new", 0 - ThirtyDays, "absent")) \notin DOMAIN history
        /\ Event("A", "delisted", 0 - SevenDays, "absent") \in DOMAIN history

\* C28: at most 20 probes, and at most 50 record_history calls of new
\* listings, are in flight at any time; a batch is dispatched only when no
\* future of an earlier batch is left in flight; no item is dispatched twice,
\* and when the loop has ended every item was dispatched exactly once.
C28_BoundedBatches ==
    [][/\ b_inflight' <= batch_size(b_kind)
       /\ b_done' # b_done => b_inflight = 0
       /\ \A k \in 1..b_len : b_done'[k] <= 1
       /\ b_phase' = "done" => \A k \in 1..b_len : b_done'[k] = 1]_vars
C28_Witness ==
    /\ b_kind = "probe" /\ b_len = 2 * probe_batch_size + 1
    /\ b_phase = "gather" /\ b_i = 2 * probe_batch_size
    /\ b_inflight = 1
    /\ \A k \in 1..b_len : b_done[k] = 1

\* C29: every invocation of check_updates_with_retry ends (completed, aborted
\* or cancelled by the stop command), every call of fetch_products returns,
\* and every batch loop ends.
C29_Terminates ==
    /\ \A t \in Tasks : (pc[t] # "idle") ~> (pc[t] = "idle")
    /\ (f_pc \in {"base", "api", "page"}) ~> (f_pc = "done")
    /\ (b_phase \in {"for", "gather", "zip"}) ~> (b_phase = "done")
C29_Witness ==
    /\ f_pc = "done" /\ f_attempt = fetch_max_retries - 1
    /\ f_page = MaxPages + 1 /\ Len(f_result) = 2
    /\ f_last = "empty"

\* the tags of product u made of RE and the eight digits of a calendar date
\* that is today or later, whatever the year
DatedTagsToCome(u) ==
    {x \in ProductTags(u) : /\ x.prefix \in {"RE2025", "RE2026"} /\ x.len = 10
                            /\ x.parses /\ x.day >= today}

\* C31: when update_products has run process_resale_items, every product of
\* the catalog that bears a tag RE + YYYYMMDD of a calendar date that is today
\* or later, of any year, was upserted and has a resale entry whose
\* next_resale_date is today or later and not after the date of that tag.
C31_AnyYearRecognised ==
    [][\A t \in Tasks :
          (pc[t] = "update" /\ pc'[t] = "insert")
              => \A u \in new_products_data[t] :
                    \A tag \in DatedTagsToCome(u) :
                        /\ Op("resale", "upsert", u) \in db_writes'[t]
                        /\ \E e \in EntriesOf(resale', u) :
                              /\ e.next_resale_date >= today
                              /\ e.next_resale_date <= tag.day]_vars

\* the restock tags of product u whose digits datetime(year, month, day) rejects
Unparseable(u) ==
    {x \in ProductTags(u) : x.prefix = "RE2025" /\ x.len >= 10 /\ ~x.parses}

C33_ResaleIdempotent ==
    \A data \in SUBSET URLs :
        process_resale_items(process_resale_items(resale, data, today), data, today)
            = process_resale_items(resale, data, today)
C33_Witness ==
    \E t \in Tasks :
        /\ pc[t] = "insert" /\ today = 1
        /\ new_products_data[t] = {"A", "B"} /\ old_products[t] = {"A", "B"}
        /\ Op("resale", "upsert", "B") \in db_writes[t]
        /\ resale = {[url |-> "A", next_resale_date |-> 0],
                     [url |-> "B", next_resale_date |-> 1]}
        /\ process_resale_items(resale, new_products_data[t], today) = resale

\* the history ledger holds a delisted event of url u dated within the run
DelistedSince(hist, u, d) ==
    \E e \in DOMAIN hist : e.url = u /\ e.type = "delisted" /\ e.day >= d

Reported(t) ==
    /\ pc[t] = "returned" /\ exc[t] = "none"
    /\ outcome[t] \in {"completed", "update_failed", "event_write_failed"}

\* C35: when a cycle has reported its new listings, whether or not its call
\* of update_products failed, every url it reported as new is in the Snapshot
\* Store, which the next cycle reads as its baseline.
C35_NewInNextBaseline ==
    \A t \in Tasks :
        Reported(t) => new_listings[t] \subseteq urls_of(products)

\* the task's call of record_history inserted an event into the history ledger
WroteHistory(t) == Op("history", "insert", r_url[t]) \in db_writes[t]

\* C36: of two calls of record_history for the same url and type that are in
\* progress or done on the same day, at most one has inserted an event into
\* the history ledger.
C36_RecordAtomic ==
    \A t1, t2 \in Tasks :
        (/\ t1 # t2
         /\ r_pc[t1] # "off" /\ r_pc[t2] # "off"
         /\ r_url[t1] = r_url[t2] /\ r_type[t1] = r_type[t2])
            => ~(WroteHistory(t1) /\ WroteHistory(t2))

\* C37: when a call of record_history has returned, by `return True` or from
\* its `except`, after inserting an event into the new or the delisted
\* collection, the history ledger holds an event of the same url and type of
\* that day.
C37_TypedImpliesHistory ==
    \A t \in Tasks :
        (r_pc[t] = "done" /\ Op(r_type[t], "insert", r_url[t]) \in db_writes[t])
            => CountOf(history, r_url[t], r_type[t], today) >= 1

\* the cycle of the task is past its probes and its delisted records
PastRecords(t) ==
    \/ pc[t] \in {"record_new", "update", "insert", "sync"}
    \/ pc[t] \in Ended /\ outcome[t] \in {"completed", "update_failed",
                                              "event_write_failed"}

\* C38: check_product_url answers False to a HEAD request that timed out or
\* raised, and True only to a 200 answer; once a cycle is past its delisted
\* records, every candidate whose probe timed out or raised is in the
\* delisted list it reports and the history ledger holds a delisted event
\* of it written during the run.
C38_ProbeErrorIsDelisted ==
    /\ \A r \in HeadOutcomes :
          check_product_url(r) <=> (~r.raised /\ r.status_code = 200)
    /\ \A t \in Tasks :
          PastRecords(t)
              => \A u \in missing_products[t] :
                    response[t][u].raised
                        => /\ u \in delisted_list[t]
                           /\ DelistedSince(history, u, 0)
C38_Witness ==
    \E t \in Tasks :
        /\ pc[t] = "returned" /\ outcome[t] = "completed"
        /\ old_products[t] = {"A", "B"} /\ missing_products[t] = {"A"}
        /\ response[t]["A"].raised
        /\ delisted_list[t] = {"A"}
        /\ Op("delisted", "insert", "A") \in db_writes[t]
        /\ CountOf(history, "A", "delisted", today) >= 1

\* C39: a call of update_products with the empty list returns without a
\* write: the five collections are as they were, the Snapshot Store
\* included, and no operation was issued.
C39_EmptyListNoWrite ==
    [][\A t \in Tasks :
          (pc[t] = "update" /\ new_products_data[t] = {} /\ pc'[t] # "update")
              => /\ UNCHANGED dbvars
                 /\ db_writes'[t] = db_writes[t]
                 /\ pc'[t] = "returned"]_vars
C39_Witness ==
    \E t \in Tasks :
        /\ pc[t] = "returned" /\ outcome[t] = "no_data"
        /\ new_products_data[t] = {} /\ db_writes[t] = {}
        /\ urls_of(products) = {"A", "B"}
        /\ history # EmptyBag

====
